---- MODULE Spec2Model ----
(***************************************************************************)
(* Model of src/main.py, the "Apuestas Backend (Odds API)" service:        *)
(*   - the in-memory cache (cache_get / cache_set),                        *)
(*   - the upstream helper api_get and its two cached callers              *)
(*     list_sports / fetch_odds_for_sport,                                 *)
(*   - the edge calculator compute_edges with its inner consensus,         *)
(*   - the GET /bets handler get_bets.                                     *)
(*                                                                         *)
(* Numbers.  Python floats are modelled as exact fixed-point integers:     *)
(* decimal odds are counted in tenths (2.5 is 25) and probabilities and    *)
(* edges in units of 1/PROB_ONE (0.05 is 100).  All odds of the model      *)
(* divide 10 * PROB_ONE into an even number, so 1/odds and the mean of two *)
(* probabilities are exact; IEEE rounding is not modelled.                 *)
(*                                                                         *)
(* Python's None is the string NONE; a key missing from a dict is ABSENT.  *)
(***************************************************************************)
EXTENDS Integers, Sequences, FiniteSets, TLC

VARIABLES
    imps,       \* SpecConsensus: the list handed to consensus
    med,        \* SpecConsensus: what consensus returned ([done, val])
    events,     \* SpecEdges: the batch handed to compute_edges
    edges,      \* SpecEdges: what compute_edges did ([done, err, out])
    now,        \* the wall clock, in seconds (time.time() / datetime.utcnow())
    cache,      \* _cache: key -> NoItem or [ts, data]
    call,       \* the last call or request handled, with its arguments
    reply,      \* the upstream reply api_get saw in that call (if it asked)
    sent,       \* the number of upstream requests that call made
    resp        \* what that call returned or raised

vars == <<imps, med, events, edges, now, cache, call, reply, sent, resp>>

NONE == "<None>"
ABSENT == "<absent>"

(***************************************************************************)
(* Bounds of the model.                                                    *)
(***************************************************************************)
MaxImps == 4        \* longest list handed to consensus in SpecConsensus
MaxEvents == 2      \* most events in a batch of SpecEdges
MaxBooks == 2       \* most bookmakers of one event in SpecEdges
MaxBetBooks == 3    \* most bookmakers of one event in SpecBets
MaxTicks == 4       \* the clock stops after MaxTicks ticks

\* 1.0 as a fixed-point probability (the numerator of 1.0 / odds).
PROB_ONE == 2000

\* line 21: the freshness window of the cache, in seconds
CACHE_TTL == 120

(***************************************************************************)
(* Sequence helpers.                                                       *)
(***************************************************************************)
RECURSIVE SeqsUpTo(_, _)
SeqsUpTo(S, n) ==
    IF n = 0 THEN {<<>>}
    ELSE LET shorter == SeqsUpTo(S, n - 1)
         IN  shorter \cup {Append(s, x) : s \in {t \in shorter : Len(t) = n - 1}, x \in S}

RECURSIVE Flatten(_)
Flatten(ss) == IF ss = <<>> THEN <<>> ELSE Head(ss) \o Flatten(Tail(ss))

Range(s) == {s[i] : i \in DOMAIN s}

(***************************************************************************)
(* sorted(imps): ascending, by insertion.                                  *)
(***************************************************************************)
RECURSIVE InsertAsc(_, _)
InsertAsc(x, s) ==
    IF s = <<>> THEN <<x>>
    ELSE IF x < Head(s) THEN <<x>> \o s
    ELSE <<Head(s)>> \o InsertAsc(x, Tail(s))

RECURSIVE SortedAsc(_)
SortedAsc(s) == IF s = <<>> THEN <<>> ELSE InsertAsc(Head(s), SortedAsc(Tail(s)))

\* A consensus that forgets to sort: takes the middle of the list as given.
consensus_unsorted(l) ==
    IF l = <<>> THEN 0
    ELSE LET n == Len(l)
         IN  IF n % 2 = 1 THEN l[(n \div 2) + 1]
             ELSE (l[n \div 2] + l[(n \div 2) + 1]) \div 2

\* compute_edges.consensus: the median (s is 1-indexed here, 0-indexed there).
consensus(l) ==
    IF l = <<>> THEN 0
    ELSE LET s == SortedAsc(l)
             n == Len(s)
         IN  IF n % 2 = 1 THEN s[(n \div 2) + 1]
             ELSE (s[n \div 2] + s[(n \div 2) + 1]) \div 2

(***************************************************************************)
(* Records of the upstream payload.                                        *)
(*   price    [t, v]: t = "absent" (no "price" key), "null" (None),        *)
(*            "num" (a number, v tenths) or "text" (a non-numeric string)  *)
(*   outcome  [name, price]        name is a string or NONE                *)
(*   market   [key, outcomes]      key is a string or ABSENT               *)
(*   bookmaker [title, markets]    title is a string or ABSENT             *)
(*   event    [id, commence_time, home_team, away_team, sport_title,       *)
(*             bookmakers]         id, commence_time: a string or NONE     *)
(***************************************************************************)
Num(v) == [t |-> "num", v |-> v]
NoPrice == [t |-> "absent", v |-> 0]
NullPrice == [t |-> "null", v |-> 0]
TextPrice == [t |-> "text", v |-> 0]

\* d.get(k, default)
GetOr(v, default) == IF v = ABSENT THEN default ELSE v

\* x or y
Or(x, y) == IF x \in {NONE, ABSENT, ""} THEN y ELSE x

\* f"{x}"
Str(x) == IF x \in {NONE, ABSENT} THEN "None" ELSE x

\* float(outcome.get("price", 0.0) or 0.0) raises ValueError on a non-numeric string
float_raises(price) == price.t = "text"

\* float(outcome.get("price", 0.0) or 0.0), in tenths
float_price(price) == IF price.t = "num" THEN price.v ELSE 0

\* 1.0 / odds
implied(odds) == (10 * PROB_ONE) \div odds

(***************************************************************************)
(* datetime.utcnow().isoformat() and iso_to_dt.  The clock's zero is       *)
(* 2024-01-01T00:00:00 UTC; a datetime is [t, aware].                      *)
(***************************************************************************)
Digit(d) == CASE d = 0 -> "0" [] d = 1 -> "1" [] d = 2 -> "2" [] d = 3 -> "3"
              [] d = 4 -> "4" [] d = 5 -> "5" [] d = 6 -> "6" [] d = 7 -> "7"
              [] d = 8 -> "8" [] d = 9 -> "9"

D2(n) == Digit(n \div 10) \o Digit(n % 10)

isoformat(t) ==
    "2024-01-01T" \o D2(t \div 3600) \o ":" \o D2((t % 3600) \div 60) \o ":" \o D2(t % 60)

\* The instants a start time of the model can name: the clock's values and the two
\* upstream start times, half an hour and an hour and a half after the clock's zero.
Instants == {i * (CACHE_TTL \div 3) : i \in 0..MaxTicks} \cup {1800, 5400}

\* The ISO-8601 text of every instant, naive and with the upstream's Z suffix.
IsoNaive == [t \in Instants |-> isoformat(t)]
IsoZ == [t \in Instants |-> isoformat(t) \o "Z"]

\* datetime.fromisoformat(s.replace("Z", "+00:00"))
iso_to_dt(s) ==
    IF \E t \in Instants : s = IsoZ[t]
    THEN [t |-> CHOOSE t \in Instants : s = IsoZ[t], aware |-> TRUE]
    ELSE [t |-> CHOOSE t \in Instants : s = IsoNaive[t], aware |-> FALSE]

(***************************************************************************)
(* compute_edges.  Both passes walk events > bookmakers > markets >        *)
(* outcomes in the same order; Walk lists what the innermost loop body     *)
(* sees, with the per-event values computed before the bookmaker loop.     *)
(***************************************************************************)
MarketQuotes(bk_name, mkt) ==
    [i \in DOMAIN mkt.outcomes |->
        [bookmaker |-> bk_name,
         market |-> GetOr(mkt.key, "h2h"),
         sel |-> mkt.outcomes[i].name,
         price |-> mkt.outcomes[i].price]]

BookQuotes(bk) ==
    Flatten([i \in DOMAIN bk.markets |->
                MarketQuotes(GetOr(bk.title, "Bookmaker"), bk.markets[i])])

EventQuotes(ev) == Flatten([i \in DOMAIN ev.bookmakers |-> BookQuotes(ev.bookmakers[i])])

\* line 129: the event id of the collection pass
event_id_collect(ev) ==
    Or(ev.id, Str(ev.home_team) \o "|" \o Str(ev.away_team) \o "|" \o Str(ev.commence_time))

\* line 154: start_time = start_iso or datetime.utcnow().isoformat()
start_time_of(ev, clock) == Or(ev.commence_time, isoformat(clock))

\* line 156: the event id of the emission pass
event_id_emit(ev, clock) ==
    Or(ev.id, Str(ev.home_team) \o "|" \o Str(ev.away_team) \o "|" \o start_time_of(ev, clock))

\* What the innermost loop of a pass sees, in order; ids[e] is the pass's event id of
\* the e-th event.
Walk(evs, ids, clock) ==
    Flatten([e \in DOMAIN evs |->
        LET ev == evs[e]
            qs == EventQuotes(ev)
            event_id == ids[e]
            event_name == GetOr(ev.home_team, "Home") \o " vs " \o GetOr(ev.away_team, "Away")
            sport_group == Or(ev.sport_title, "Sport")
            start_time == start_time_of(ev, clock)
        IN  [i \in DOMAIN qs |->
                [event_id |-> event_id,
                 event_name |-> event_name,
                 sport |-> sport_group,
                 start_time |-> start_time,
                 bookmaker |-> qs[i].bookmaker,
                 market |-> qs[i].market,
                 sel |-> qs[i].sel,
                 price |-> qs[i].price]]])

KeyOf(q) == <<q.event_id, q.market, q.sel>>

\* lines 128-140: imps_by_key after the collection pass over the walk w
RECURSIVE Collect(_, _)
Collect(w, m) ==
    IF w = <<>> THEN m
    ELSE LET q == Head(w)
             odds == float_price(q.price)
         IN  IF odds <= 10 THEN Collect(Tail(w), m)
             ELSE LET key == KeyOf(q)
                      old == IF key \in DOMAIN m THEN m[key] ELSE <<>>
                  IN  Collect(Tail(w),
                              [k \in DOMAIN m \cup {key} |->
                                  IF k = key THEN Append(old, implied(odds)) ELSE m[k]])

EmptyMap == [k \in {} |-> <<>>]

\* imps_by_key.get(key, [])
Lookup(m, key) == IF key \in DOMAIN m THEN m[key] ELSE <<>>

\* lines 165-183: the Bet of one quote of the emission pass
BetOf(q, m) ==
    LET odds == float_price(q.price)
        p_cons == consensus(Lookup(m, KeyOf(q)))
        p_bk == implied(odds)
    IN  [event |-> q.event_name, bookmaker |-> q.bookmaker, market |-> q.market,
         selection |-> q.sel, odds |-> odds, edge |-> p_cons - p_bk,
         sport |-> q.sport, start_time |-> q.start_time]

\* Bet(...) validation: every str field must be a string
bet_invalid(q) == q.sel = NONE

\* lines 152-183: the emission pass keeps the quotes with odds > 1.0
Emitted(w) == SelectSeq(w, LAMBDA q : float_price(q.price) > 10)

\* compute_edges(events) at wall-clock time clock: [err, out]
compute_edges(evs, clock) ==
    LET w1 == Walk(evs, [e \in DOMAIN evs |-> event_id_collect(evs[e])], clock)
        w2 == Walk(evs, [e \in DOMAIN evs |-> event_id_emit(evs[e], clock)], clock)
        m == Collect(w1, EmptyMap)
        em == Emitted(w2)
    IN  IF \E i \in DOMAIN w1 : float_raises(w1[i].price)
        THEN [err |-> "ValueError", out |-> <<>>]
        ELSE IF \E i \in DOMAIN em : bet_invalid(em[i])
        THEN [err |-> "ValidationError", out |-> <<>>]
        ELSE [err |-> "", out |-> [i \in DOMAIN em |-> BetOf(em[i], m)]]

(***************************************************************************)
(* The cache.  An entry is [ts, data, set]; set = FALSE is a missing key.  *)
(***************************************************************************)
NoItem == [ts |-> -1, data |-> <<>>, set |-> FALSE]

\* cache_get: [some, data]; some = FALSE is the None it returns
cache_get(c, key, clock) ==
    LET item == c[key]
    IN  IF item.set /\ clock - item.ts < CACHE_TTL
        THEN [some |-> TRUE, data |-> item.data]
        ELSE [some |-> FALSE, data |-> <<>>]

\* cache_set
cache_set(c, key, data, clock) ==
    [c EXCEPT ![key] = [ts |-> clock, data |-> data, set |-> TRUE]]

\* "if cached:" - None and the empty list are both false
Truthy(cached) == cached.some /\ cached.data # <<>>

(***************************************************************************)
(* api_get.  An upstream reply is [kind, status, json, data]:              *)
(*   kind   "response", or "exception" when requests.get raised            *)
(*          (connection error, timeout); redirects are followed inside     *)
(*          requests.get, so a response is 2xx, 4xx or 5xx                 *)
(*   json   what r.json() does: "ok" (data is the payload), or the body is *)
(*          no JSON and it raises "RequestException" (requests >= 2.27) or *)
(*          "ValueError" (older requests)                                  *)
(* The result is [ok, status, detail, data, requests]: the data returned   *)
(* or the HTTP status of the error raised, and the requests.get calls made.*)
(***************************************************************************)
Raise(status, detail) ==
    [ok |-> FALSE, status |-> status, detail |-> detail, data |-> <<>>, requests |-> 1]

\* An api_get that reports a rate limit as a plain gateway error.
api_get_no_429(rep) ==
    IF rep.kind = "exception" THEN Raise(502, "upstream")
    ELSE IF rep.status = 401 THEN Raise(502, "auth")
    ELSE IF rep.status >= 400 /\ rep.status < 600 THEN Raise(502, "upstream")
    ELSE IF rep.json = "ok"
    THEN [ok |-> TRUE, status |-> 200, detail |-> "", data |-> rep.data, requests |-> 1]
    ELSE IF rep.json = "RequestException" THEN Raise(502, "upstream")
    ELSE Raise(500, "JSONDecodeError")

api_get(rep) ==
    IF rep.kind = "exception" THEN Raise(502, "upstream")
    ELSE IF rep.status = 401 THEN Raise(502, "auth")
    ELSE IF rep.status = 429 THEN Raise(429, "rate")
    ELSE IF rep.status >= 400 /\ rep.status < 600 THEN Raise(502, "upstream")
    ELSE IF rep.json = "ok"
    THEN [ok |-> TRUE, status |-> 200, detail |-> "", data |-> rep.data, requests |-> 1]
    ELSE IF rep.json = "RequestException" THEN Raise(502, "upstream")
    ELSE Raise(500, "JSONDecodeError")

\* What a cached caller hands back: the new cache, the value returned or the error
\* raised, the upstream requests made and whether api_get was called.
Hit(c, data) ==
    [cache |-> c, ok |-> TRUE, status |-> 200, detail |-> "", data |-> data,
     sent |-> 0, asked |-> FALSE]

Miss(c, r, data) ==
    [cache |-> c, ok |-> r.ok, status |-> r.status, detail |-> r.detail, data |-> data,
     sent |-> r.requests, asked |-> TRUE]

\* list_sports, when the upstream would reply rep
list_sports(c, clock, rep) ==
    LET ck == "sports_all"
        cached == cache_get(c, ck, clock)
    IN  IF Truthy(cached) THEN Hit(c, cached.data)
        ELSE LET r == api_get(rep)
                 active == SelectSeq(r.data, LAMBDA sp : sp.active)
             IN  IF r.ok THEN Miss(cache_set(c, ck, active, clock), r, active)
                 ELSE Miss(c, r, <<>>)

\* fetch_odds_for_sport, when the upstream would reply rep
fetch_odds_for_sport(sport_key, c, clock, rep) ==
    LET ck == "odds::" \o sport_key
        cached == cache_get(c, ck, clock)
    IN  IF Truthy(cached) THEN Hit(c, cached.data)
        ELSE LET r == api_get(rep)
             IN  IF r.ok THEN Miss(cache_set(c, ck, r.data, clock), r, r.data)
                 ELSE Miss(c, r, <<>>)

(***************************************************************************)
(* get_bets.  An optional numeric query parameter is [given, v].           *)
(***************************************************************************)
Given(v) == [given |-> TRUE, v |-> v]
NotGiven == [given |-> FALSE, v |-> 0]

\* str.lower() on the bookmaker names of the model
lower(str) ==
    CASE str = "Bet365" -> "bet365"
      [] str = "Unibet" -> "unibet"
      [] str = "Betfair" -> "betfair"
      [] str = "Pinnacle" -> "pinnacle"
      [] str = "BWIN" -> "bwin"
      [] OTHER -> str

\* bets.sort(key=lambda b: b.edge, reverse=True): stable, descending
RECURSIVE InsertDesc(_, _)
InsertDesc(b, s) ==
    IF s = <<>> THEN <<b>>
    ELSE IF b.edge >= Head(s).edge THEN <<b>> \o s
    ELSE <<Head(s)>> \o InsertDesc(b, Tail(s))

RECURSIVE SortedDesc(_)
SortedDesc(s) == IF s = <<>> THEN <<>> ELSE InsertDesc(Head(s), SortedDesc(Tail(s)))

\* bets[:n]
Take(s, n) == SubSeq(s, 1, IF Len(s) < n THEN Len(s) ELSE n)

\* The cap of line 254 is 200; the model scales it down to keep batches small.
ResultCap == 2

\* lines 240-241
filter_bookmaker(bets, bookmaker) ==
    IF bookmaker \in {NONE, ""} THEN bets
    ELSE SelectSeq(bets, LAMBDA b : lower(b.bookmaker) = lower(bookmaker))

\* lines 242-244: comparing an aware datetime with the naive limit raises TypeError
hours_raises(bets, hours_before) ==
    /\ hours_before.given
    /\ \E i \in DOMAIN bets : iso_to_dt(bets[i].start_time).aware

filter_hours(bets, hours_before, clock) ==
    IF ~hours_before.given THEN bets
    ELSE LET limit_dt == clock + 3600 * hours_before.v
         IN  SelectSeq(bets, LAMBDA b : iso_to_dt(b.start_time).t <= limit_dt)

\* An edge_min filter that takes the bound as a fraction, not as a percentage.
filter_edge_min_fraction(bets, edge_min) ==
    IF ~edge_min.given THEN bets
    ELSE SelectSeq(bets, LAMBDA b : b.edge >= edge_min.v * PROB_ONE)

\* lines 245-247: b.edge >= edge_min / 100.0
filter_edge_min(bets, edge_min) ==
    IF ~edge_min.given THEN bets
    ELSE SelectSeq(bets, LAMBDA b : 100 * b.edge >= edge_min.v * PROB_ONE)

\* lines 248-250: b.edge <= edge_max / 100.0
filter_edge_max(bets, edge_max) ==
    IF ~edge_max.given THEN bets
    ELSE SelectSeq(bets, LAMBDA b : 100 * b.edge <= edge_max.v * PROB_ONE)

\* A final step that caps the list before sorting it.
sort_and_cap_swapped(bets) == SortedDesc(Take(bets, ResultCap))

\* lines 253-254
sort_and_cap(bets) == Take(SortedDesc(bets), ResultCap)

Response(f, status, detail, body) ==
    [cache |-> f.cache, sent |-> f.sent, asked |-> f.asked,
     status |-> status, detail |-> detail, body |-> body]

\* get_bets, when the upstream would reply rep
get_bets(sport_key, bookmaker, hours_before, edge_min, edge_max, c, clock, rep) ==
    LET f == fetch_odds_for_sport(sport_key, c, clock, rep)
        ce == compute_edges(f.data, clock)
        b1 == filter_bookmaker(ce.out, bookmaker)
        b2 == filter_hours(b1, hours_before, clock)
        b3 == filter_edge_min(b2, edge_min)
        b4 == filter_edge_max(b3, edge_max)
    IN  IF ~f.ok THEN Response(f, f.status, f.detail, <<>>)
        ELSE IF ce.err # "" THEN Response(f, 500, ce.err, <<>>)
        ELSE IF hours_raises(b1, hours_before) THEN Response(f, 500, "TypeError", <<>>)
        ELSE Response(f, 200, "", sort_and_cap(b4))

(***************************************************************************)
(* Idle values of the variables a specification does not use.              *)
(***************************************************************************)
CacheKeys == {"sports_all", "odds::soccer_epl", "odds::basketball_nba"}
IdleCall == [op |-> "none"]
IdleReply == [kind |-> "none"]
IdleResp == [status |-> 0, detail |-> "", body |-> <<>>]

ServerIdle ==
    /\ now = 0
    /\ cache = [k \in CacheKeys |-> NoItem]
    /\ call = IdleCall
    /\ reply = IdleReply
    /\ sent = 0
    /\ resp = IdleResp

ConsensusIdle == imps = <<>> /\ med = [done |-> FALSE, val |-> 0]
EdgesIdle == events = <<>> /\ edges = [done |-> FALSE, err |-> "", out |-> <<>>]

(***************************************************************************)
(* SpecConsensus: consensus applied to every list of up to MaxImps         *)
(* implied probabilities, in every order.                                  *)
(***************************************************************************)
ProbValues == {600, 800, 1000, 1200, 1400, 1800}

InitConsensus ==
    /\ imps \in SeqsUpTo(ProbValues, MaxImps)
    /\ med = [done |-> FALSE, val |-> 0]
    /\ EdgesIdle
    /\ ServerIdle

Consensus ==
    /\ ~med.done
    /\ med' = [done |-> TRUE, val |-> consensus(imps)]
    /\ UNCHANGED <<imps, events, edges, now, cache, call, reply, sent, resp>>

NextConsensus == Consensus

SpecConsensus == InitConsensus /\ [][NextConsensus]_vars

(***************************************************************************)
(* SpecEdges: compute_edges applied to every batch of up to MaxEvents      *)
(* events, each with up to MaxBooks bookmakers quoting one h2h market.     *)
(***************************************************************************)
Outcome(name, price) == [name |-> name, price |-> price]

OutcomeLists ==
    {<<>>,
     <<Outcome("Home", Num(20))>>,
     <<Outcome("Home", Num(25))>>,
     <<Outcome("Home", Num(10))>>,
     <<Outcome("Home", NoPrice)>>,
     <<Outcome(NONE, Num(20))>>,
     <<Outcome("Home", TextPrice)>>,
     <<Outcome("Home", Num(20)), Outcome("Away", Num(25))>>}

Titles == <<"Bet365", "bwin", "Unibet", "Betfair", "Pinnacle">>

\* An event whose i-th bookmaker quotes the outcomes ols[i] in its h2h market.
MkEvent(id, ct, ols) ==
    [id |-> id, commence_time |-> ct, home_team |-> "Celta", away_team |-> "Depor",
     sport_title |-> "La Liga",
     bookmakers |-> [i \in DOMAIN ols |->
                        [title |-> Titles[i],
                         markets |-> <<[key |-> "h2h", outcomes |-> ols[i]]>>]]]

StartSoon == "2024-01-01T00:30:00Z"
StartLate == "2024-01-01T01:30:00Z"

EdgeEvents ==
    {MkEvent(id, ct, ols) :
        id \in {NONE, "e1"}, ct \in {NONE, StartSoon}, ols \in SeqsUpTo(OutcomeLists, MaxBooks)}

InitEdges ==
    /\ events \in SeqsUpTo(EdgeEvents, MaxEvents)
    /\ edges = [done |-> FALSE, err |-> "", out |-> <<>>]
    /\ ConsensusIdle
    /\ ServerIdle

\* What compute_edges did, as the variable edges records it.
Done(r) == [done |-> TRUE, err |-> r.err, out |-> r.out]

ComputeEdges ==
    /\ ~edges.done
    /\ edges' = Done(compute_edges(events, now))
    /\ UNCHANGED <<imps, med, events, now, cache, call, reply, sent, resp>>

NextEdges == ComputeEdges

SpecEdges == InitEdges /\ [][NextEdges]_vars

(***************************************************************************)
(* The clock advances in thirds of the freshness window, so that an entry  *)
(* is seen younger than, exactly as old as, and older than CACHE_TTL.      *)
(***************************************************************************)
TickStep == CACHE_TTL \div 3

Tick ==
    /\ now + TickStep <= MaxTicks * TickStep
    /\ now' = now + TickStep
    /\ UNCHANGED <<imps, med, events, edges, cache, call, reply, sent, resp>>

(***************************************************************************)
(* Upstream replies.                                                       *)
(***************************************************************************)
OkReply(data) == [kind |-> "response", status |-> 200, json |-> "ok", data |-> data]
StatusReply(n) == [kind |-> "response", status |-> n, json |-> "ok", data |-> <<>>]
GarbageReply(exc) == [kind |-> "response", status |-> 200, json |-> exc, data |-> <<>>]
ExceptionReply == [kind |-> "exception", status |-> 0, json |-> "ok", data |-> <<>>]

FailReplies ==
    {StatusReply(401), StatusReply(429), StatusReply(404), StatusReply(500),
     GarbageReply("RequestException"), GarbageReply("ValueError"), ExceptionReply}

(***************************************************************************)
(* SpecCache: list_sports and fetch_odds_for_sport called at arbitrary     *)
(* times (as GET /sports and GET /bookmakers call them), against an        *)
(* upstream that replies anything.                                         *)
(***************************************************************************)
SportKeys == {"soccer_epl", "basketball_nba"}

Sport(key, active) == [key |-> key, active |-> active]

SportsPayloads ==
    {<<>>,
     <<Sport("soccer_epl", TRUE)>>,
     <<Sport("basketball_nba", FALSE)>>,
     <<Sport("soccer_epl", TRUE), Sport("basketball_nba", FALSE)>>}

OddsPayloads ==
    {<<>>,
     <<MkEvent("e1", StartSoon, << <<Outcome("Home", Num(20))>> >>)>>,
     <<MkEvent("e2", StartLate, << <<Outcome("Home", Num(25))>> >>)>>}

InitCache ==
    /\ ServerIdle
    /\ ConsensusIdle
    /\ EdgesIdle

\* The state after a call of a cached caller that handed back r.
Called(op, key, r, rep) ==
    /\ cache' = r.cache
    /\ call' = [op |-> op, key |-> key, asked |-> r.asked]
    /\ reply' = IF r.asked THEN rep ELSE IdleReply
    /\ sent' = r.sent
    /\ resp' = [status |-> r.status, detail |-> r.detail, body |-> r.data]
    /\ UNCHANGED <<imps, med, events, edges, now>>

ListSports ==
    \E rep \in {OkReply(d) : d \in SportsPayloads} \cup FailReplies :
        Called("list_sports", "sports_all", list_sports(cache, now, rep), rep)

FetchOdds ==
    \E sk \in SportKeys, rep \in {OkReply(d) : d \in OddsPayloads} \cup FailReplies :
        Called("fetch_odds_for_sport", "odds::" \o sk,
               fetch_odds_for_sport(sk, cache, now, rep), rep)

NextCache == Tick \/ ListSports \/ FetchOdds

SpecCache == InitCache /\ [][NextCache]_vars

(***************************************************************************)
(* SpecBets: GET /bets for the default sport_key with every combination of *)
(* filters, over well-formed upstream batches of one event quoted by up to *)
(* MaxBetBooks bookmakers.  The clock stands still here: expiry is         *)
(* SpecCache's subject.                                                    *)
(***************************************************************************)
BetOutcomeLists ==
    {<<Outcome("Home", Num(20))>>, <<Outcome("Home", Num(25))>>, <<Outcome("Home", Num(40))>>}

BetPayloads ==
    {<<>>} \cup
    {<<MkEvent("e1", ct, ols)>> :
        ct \in {NONE, StartSoon}, ols \in SeqsUpTo(BetOutcomeLists, MaxBetBooks)}

BookmakerParams == {NONE, "bet365"}
HoursParams == {NotGiven, Given(0), Given(1)}
EdgeMinParams == {NotGiven, Given(0), Given(5)}
EdgeMaxParams == {NotGiven, Given(5)}

InitBets ==
    /\ ServerIdle
    /\ ConsensusIdle
    /\ EdgesIdle

\* The upstream replies a call for cache key ck can meet: it meets none when the
\* cached value stops it from asking.
Upstream(ck, replies) ==
    IF Truthy(cache_get(cache, ck, now)) THEN {IdleReply} ELSE replies

\* The failures of api_get are SpecCache's subject; one of them stands for all here.
BetReplies == {OkReply(d) : d \in BetPayloads} \cup {StatusReply(429)}

\* The state after get_bets handed back r to the request rq.
Handled(rq, r, rep) ==
    /\ cache' = r.cache
    /\ call' = [op |-> "get_bets", key |-> "odds::" \o rq.sport_key, asked |-> r.asked,
                bookmaker |-> rq.bookmaker, hours_before |-> rq.hours_before,
                edge_min |-> rq.edge_min, edge_max |-> rq.edge_max]
    /\ reply' = IF r.asked THEN rep ELSE IdleReply
    /\ sent' = r.sent
    /\ resp' = [status |-> r.status, detail |-> r.detail, body |-> r.body]
    /\ UNCHANGED <<imps, med, events, edges, now>>

GetBets ==
    \E bookmaker \in BookmakerParams, hours_before \in HoursParams,
       edge_min \in EdgeMinParams, edge_max \in EdgeMaxParams,
       rep \in Upstream("odds::soccer_epl", BetReplies) :
        Handled([sport_key |-> "soccer_epl", bookmaker |-> bookmaker,
                 hours_before |-> hours_before, edge_min |-> edge_min,
                 edge_max |-> edge_max],
                get_bets("soccer_epl", bookmaker, hours_before, edge_min, edge_max,
                         cache, now, rep),
                rep)

NextBets == GetBets

SpecBets == InitBets /\ [][NextBets]_vars

(***************************************************************************)
(* Vocabulary of the properties: the median and the Consensus Key as the   *)
(* specification defines them, independently of the code above.            *)
(***************************************************************************)
\* The k-th smallest element of the list s (1 <= k <= Len(s)).
Kth(s, k) ==
    CHOOSE v \in Range(s) :
        /\ Cardinality({i \in DOMAIN s : s[i] < v}) < k
        /\ Cardinality({i \in DOMAIN s : s[i] <= v}) >= k

\* The median of s; 0 for the empty list.  Twice the median is an integer.
MedianOf(s) ==
    LET n == Len(s)
    IN  IF n = 0 THEN 0
        ELSE IF n % 2 = 1 THEN Kth(s, (n + 1) \div 2)
        ELSE (Kth(s, n \div 2) + Kth(s, (n \div 2) + 1)) \div 2

\* The event identifier of section 4.1: the id, else the teams and the start time,
\* the start time falling back to the current UTC timestamp.
EventIdentifier(ev, clock) ==
    IF ev.id # NONE THEN ev.id
    ELSE Str(ev.home_team) \o "|" \o Str(ev.away_team) \o "|"
            \o (IF ev.commence_time # NONE THEN ev.commence_time ELSE isoformat(clock))

\* The valid quotes of a batch (odds > 1.0), in the order of the nested structure.
ValidQuotes(evs, clock) ==
    SelectSeq(Walk(evs, [e \in DOMAIN evs |-> EventIdentifier(evs[e], clock)], clock),
              LAMBDA q : q.price.t = "num" /\ q.price.v > 10)

\* The implied probabilities of the valid quotes sharing the Consensus Key of vq[i].
SameKeyImps(vq, i) ==
    LET same == SelectSeq(vq, LAMBDA q : KeyOf(q) = KeyOf(vq[i]))
    IN  [j \in DOMAIN same |-> (10 * PROB_ONE) \div same[j].price.v]

\* C4: once consensus has returned, its value is the median of the list it was given
\* (middle element of the ascending order for an odd count, mean of the two middle
\* elements for an even count, 0 for the empty list), whatever the order of the list;
\* [0.4, 0.5, 0.6] gives 0.5 and [0.3, 0.5, 0.7, 0.9] gives 0.6.
C4_ConsensusIsMedian ==
    med.done =>
        /\ med.val = MedianOf(imps)
        /\ (imps = <<>> => med.val = 0)
        /\ (Range(imps) = {800, 1000, 1200} /\ Len(imps) = 3 => med.val = 1000)
        /\ (Range(imps) = {600, 1000, 1400, 1800} /\ Len(imps) = 4 => med.val = 1200)

C4_Witness ==
    /\ med.done
    /\ imps = <<1800, 600, 1400, 1000>>
    /\ med.val = 1200

\* C1: every emitted Bet's edge is the median of the implied probabilities of all
\* valid quotes of the batch sharing its Consensus Key, its own included, minus its
\* own implied probability.
C1_EdgeAgainstConsensusOfKey ==
    (edges.done /\ edges.err = "") =>
        LET vq == ValidQuotes(events, now)
        IN  /\ Len(edges.out) = Len(vq)
            /\ \A i \in DOMAIN vq :
                  edges.out[i].edge =
                      MedianOf(SameKeyImps(vq, i)) - ((10 * PROB_ONE) \div vq[i].price.v)

\* C2: the returned list corresponds one to one, in order, to the quotes of the batch
\* with odds > 1.0: one Bet per valid quote, none for any other quote.
C2_OneBetPerValidQuote ==
    edges.done =>
        LET vq == ValidQuotes(events, now)
        IN  /\ Len(edges.out) = Len(vq)
            /\ \A i \in DOMAIN vq :
                  /\ edges.out[i].bookmaker = vq[i].bookmaker
                  /\ edges.out[i].market = vq[i].market
                  /\ edges.out[i].selection = vq[i].sel
                  /\ edges.out[i].odds = vq[i].price.v

\* C3: the Bet of a quote that is the only valid quote of its Consensus Key has edge 0.
C3_LoneQuoteHasZeroEdge ==
    (edges.done /\ edges.err = "") =>
        LET vq == ValidQuotes(events, now)
        IN  /\ Len(edges.out) = Len(vq)
            /\ \A i \in DOMAIN vq :
                  Len(SameKeyImps(vq, i)) = 1 => edges.out[i].edge = 0

\* C8: compute_edges raises for no batch.
C8_NeverRaises == edges.done => edges.err = ""

(***************************************************************************)
(* Vocabulary of the properties of GET /bets: the request last handled,    *)
(* the batch it worked on and the filters as the interface states them.    *)
(***************************************************************************)
BetsServed == call.op = "get_bets" /\ resp.status = 200

\* Every Bet of the batch the request worked on (the cached upstream batch).
AllBets == compute_edges(cache[call.key].data, now).out

Count(s, b) == Cardinality({i \in DOMAIN s : s[i] = b})

Min(a, b) == IF a < b THEN a ELSE b

PassesBookmaker(b) ==
    call.bookmaker = NONE \/ lower(b.bookmaker) = lower(call.bookmaker)

\* The start is at most hours_before hours after the current time.
PassesHours(b) ==
    call.hours_before.given =>
        iso_to_dt(b.start_time).t <= now + 3600 * call.hours_before.v

\* edge_min / 100 <= edge <= edge_max / 100, for the bounds supplied
PassesEdgeMin(b) == call.edge_min.given => call.edge_min.v * PROB_ONE <= 100 * b.edge
PassesEdgeMax(b) == call.edge_max.given => 100 * b.edge <= call.edge_max.v * PROB_ONE

\* The Bets passing the filters other than the edge bounds, and those passing all.
OtherwiseQualifying == SelectSeq(AllBets, LAMBDA b : PassesBookmaker(b) /\ PassesHours(b))
Filtered == SelectSeq(OtherwiseQualifying, LAMBDA b : PassesEdgeMin(b) /\ PassesEdgeMax(b))

\* C5: edge_min and edge_max are percentages: every returned Bet lies within the
\* supplied bounds divided by 100, bounds included, and the edge filters drop no Bet
\* that lies within them (only the cap shortens the list); a supplied bound of 0 is a
\* bound, so edge_min=0 keeps exactly the Bets of non-negative edge.
C5_EdgeBoundsArePercentages ==
    BetsServed =>
        /\ \A i \in DOMAIN resp.body :
              /\ PassesEdgeMin(resp.body[i])
              /\ PassesEdgeMax(resp.body[i])
        /\ Len(resp.body) = Min(Len(Filtered), ResultCap)
        /\ (call.edge_min = Given(0) =>
              /\ \A i \in DOMAIN resp.body : resp.body[i].edge >= 0
              /\ Len(resp.body) =
                    Min(Len(SelectSeq(OtherwiseQualifying,
                                      LAMBDA b : b.edge >= 0 /\ PassesEdgeMax(b))),
                        ResultCap))

C5_Witness ==
    /\ BetsServed
    /\ call.edge_min = Given(5)
    /\ \E i \in DOMAIN resp.body : resp.body[i].edge = 100
    /\ \E i \in DOMAIN OtherwiseQualifying : OtherwiseQualifying[i].edge < 100

\* C6: the returned list is in non-increasing order of edge, holds at most ResultCap
\* Bets, all of them filtered Bets, and is the top of the filtered Bets: a filtered Bet
\* left out has an edge no greater than any returned one, and none is left out when at
\* most ResultCap pass the filters.
C6_SortedCappedTop ==
    BetsServed =>
        /\ \A i, j \in DOMAIN resp.body : i < j => resp.body[i].edge >= resp.body[j].edge
        /\ Len(resp.body) <= ResultCap
        /\ \A i \in DOMAIN resp.body :
              Count(resp.body, resp.body[i]) <= Count(Filtered, resp.body[i])
        /\ \A i \in DOMAIN Filtered :
              Count(resp.body, Filtered[i]) < Count(Filtered, Filtered[i]) =>
                  /\ Len(Filtered) > ResultCap
                  /\ \A j \in DOMAIN resp.body : Filtered[i].edge <= resp.body[j].edge

C6_Witness ==
    /\ BetsServed
    /\ Len(Filtered) > ResultCap
    /\ Len(resp.body) = ResultCap
    /\ resp.body[1].edge > resp.body[2].edge
    /\ \E i \in DOMAIN Filtered : Filtered[i].edge < resp.body[2].edge
    /\ Filtered[1].edge < Filtered[Len(Filtered)].edge

\* The upstream fetch of the request failed: fetch_odds_for_sport raised.
FetchFailed == resp.detail \in {"auth", "rate", "upstream", "JSONDecodeError"}

\* C9: a GET /bets with hours_before whose upstream fetch succeeded is served, and
\* returns the otherwise-qualifying Bets starting at most hours_before hours from now.
C9_HoursBeforeIsServed ==
    (call.op = "get_bets" /\ call.hours_before.given /\ ~FetchFailed) =>
        /\ resp.status = 200
        /\ \A i \in DOMAIN resp.body : PassesHours(resp.body[i])
        /\ Len(resp.body) = Min(Len(Filtered), ResultCap)

(***************************************************************************)
(* Properties of api_get and of the cache, under SpecCache.                *)
(***************************************************************************)
\* C7: a call that reaches api_get makes exactly one upstream request; a 401 surfaces
\* as 502 with its own detail, a 429 as 429, a failed transport or any other 4xx/5xx
\* as the generic 502, and data is returned only for a successful response.
C7_ApiGetSurfacesErrors ==
    call.op # "none" =>
        /\ sent = (IF call.asked THEN 1 ELSE 0)
        /\ call.asked =>
              /\ (reply.kind = "response" /\ reply.status = 401) =>
                    (resp.status = 502 /\ resp.detail = "auth")
              /\ (reply.kind = "response" /\ reply.status = 429) =>
                    (resp.status = 429 /\ resp.detail = "rate")
              /\ (\/ reply.kind = "exception"
                  \/ reply.kind = "response" /\ reply.status >= 400
                       /\ reply.status \notin {401, 429}) =>
                    (resp.status = 502 /\ resp.detail = "upstream")
              /\ resp.status = 200 =>
                    (reply.kind = "response" /\ reply.status = 200 /\ reply.json = "ok")

C7_Witness ==
    /\ call.op = "fetch_odds_for_sport"
    /\ call.asked
    /\ reply.kind = "response" /\ reply.status = 429
    /\ resp.status = 429
    /\ sent = 1

\* An upstream response for key k was stored less than CACHE_TTL ago.
Fresh(k) == cache[k].set /\ now - cache[k].ts < CACHE_TTL

\* C10: a call for key k asks the upstream exactly when no response for k was stored
\* less than CACHE_TTL ago; a fresh entry is returned as it is, without a request; a
\* stale or missing one is replaced by the upstream's response, and left alone when the
\* request fails; the entries of the other keys never change.
C10_UpstreamIffNotFresh ==
    [][ now' = now =>
          LET k == call'.key
          IN  /\ (sent' = 1) <=> ~Fresh(k)
              /\ (sent' = 0) <=> Fresh(k)
              /\ Fresh(k) =>
                    /\ resp'.status = 200
                    /\ resp'.body = cache[k].data
                    /\ cache' = cache
              /\ (~Fresh(k) /\ resp'.status = 200) =>
                    cache'[k] = [ts |-> now, data |-> resp'.body, set |-> TRUE]
              /\ (~Fresh(k) /\ resp'.status # 200) => cache' = cache
              /\ \A j \in CacheKeys \ {k} : cache'[j] = cache[j] ]_vars

====
